---- MODULE Spec2Model ----
(***************************************************************************)
(* Model of the image cropping service (src/main.py): the POST             *)
(* /crop-image/ handler crop_image, run by several requests at once.       *)
(*                                                                         *)
(* Representation of Python values:                                        *)
(*   - Optional[T]: None is <<>>, a present value x is <<x>>;               *)
(*   - a content type is the sequence of its tokens, "image/png" being     *)
(*     <<"image", "/", "png">> and the empty string <<>>;                  *)
(*   - a filename is the sequence of its characters;                       *)
(*   - split_percentage is a double: NaN, an infinity, a zero, or a sign,  *)
(*     a 53-bit mantissa held as two limbs hi * 2^27 + lo, and a binary    *)
(*     exponent; height * split_percentage is the product rounded to the   *)
(*     nearest double, ties to even (subnormals are left out);             *)
(*   - an upload body is undecodable bytes, or the encoding of an image of *)
(*     some width, height and colour mode, whole or cut short after its    *)
(*     header; a decoded image is its size, its mode and the source row    *)
(*     index of each of its rows;                                          *)
(*   - the address of the BytesIO object that wraps the upload, which      *)
(*     Pillow prints in its message, is any element of Addresses.          *)
(***************************************************************************)
EXTENDS Integers, Sequences, FiniteSets, TLC

VARIABLES
    request,      \* request[r]: the multipart form of request r, or NoRequest
    pc,           \* pc[r]: "absent", "start", "reading" (at await file.read()) or "done"
    image_data,   \* image_data[r]: None until file.read() returned, then <<bytes>>
    frame,        \* frame[r]: the locals division_y, image_header, image_body
    response,     \* response[r]: None until the request is answered, then <<response>>
    now           \* the server's clock, read by zipfile for the entries' date_time

vars == <<request, pc, image_data, frame, response, now>>

----------------------------------------------------------------------------
(* Bounds of the model *)

MaxHeight == 4
PctBits == 2
MaxNameLen == 3
MaxTime == 2

PctDen == 2 ^ PctBits

Requests == {"r1", "r2", "r3"}

----------------------------------------------------------------------------
(* Python values *)

None == <<>>
Some(x) == <<x>>

\* str.startswith
StartsWith(s, prefix) ==
    /\ Len(s) >= Len(prefix)
    /\ SubSeq(s, 1, Len(prefix)) = prefix

\* Number of bits of the natural number n
RECURSIVE BitLen(_)
BitLen(n) == IF n = 0 THEN 0 ELSE 1 + BitLen(n \div 2)

\* Doubles: value = (-1)^neg * (hi * Limb + lo) * 2^exp, with
\* HiMin <= hi < HiMax for every finite value but zero
Limb == 2 ^ 27
HiMin == 2 ^ 25
HiMax == 2 ^ 26

Finite(neg, hi, lo, exp) ==
    [kind |-> "finite", neg |-> neg, hi |-> hi, lo |-> lo, exp |-> exp]
NaN == [kind |-> "nan", neg |-> FALSE, hi |-> 0, lo |-> 0, exp |-> 0]
Inf(neg) == [kind |-> "inf", neg |-> neg, hi |-> 0, lo |-> 0, exp |-> 0]
Zero(neg) == Finite(neg, 0, 0, 0)
IsZero(x) == x.kind = "finite" /\ x.hi = 0 /\ x.lo = 0

\* The double n / 2^bits, for an integer n of fewer than 26 bits
Dyadic(n, bits) ==
    IF n = 0 THEN Zero(FALSE)
    ELSE LET a == IF n < 0 THEN -n ELSE n
             b == BitLen(a)
         IN  Finite(n < 0, a * 2 ^ (26 - b), 0, b - 53 - bits)

\* x < 0.0
FloatLtZero(x) ==
    CASE x.kind = "nan" -> FALSE
      [] x.kind = "inf" -> x.neg
      [] OTHER -> x.neg /\ ~IsZero(x)

\* x > 1.0
FloatGtOne(x) ==
    CASE x.kind = "nan" -> FALSE
      [] x.kind = "inf" -> ~x.neg
      [] OTHER -> /\ ~x.neg
                  /\ ~IsZero(x)
                  /\ \/ x.exp > -52
                     \/ x.exp = -52 /\ (x.hi > HiMin \/ x.lo > 0)

\* h * x for an int h in 1..15 (converted exactly) and a double x: the exact
\* product of h and the mantissa, rounded to 53 bits, ties to even
FloatMulInt(h, x) ==
    IF x.kind # "finite" \/ IsZero(x) THEN x
    ELSE LET lo2 == h * x.lo
             loP == lo2 % Limb
             hiP == h * x.hi + (lo2 \div Limb)
             k == BitLen(hiP) - 26
             rem == loP % (2 ^ k)
             loQ == (loP \div (2 ^ k)) + (hiP % (2 ^ k)) * 2 ^ (27 - k)
             hiQ == hiP \div (2 ^ k)
             up == 2 * rem > 2 ^ k \/ (k > 0 /\ 2 * rem = 2 ^ k /\ loQ % 2 = 1)
             loR == IF up THEN (loQ + 1) % Limb ELSE loQ
             hiR == IF up /\ loQ + 1 = Limb THEN hiQ + 1 ELSE hiQ
         IN  IF hiR = HiMax
             THEN Finite(x.neg, HiMin, 0, x.exp + k + 1)
             ELSE Finite(x.neg, hiR, loR, x.exp + k)

\* str.lower on the two format names
Lower(format_name) ==
    CASE format_name = "PNG" -> "png"
      [] format_name = "JPEG" -> "jpeg"
      [] OTHER -> format_name

----------------------------------------------------------------------------
(* Exceptions and responses *)

Detail(text, arg) == [text |-> text, arg |-> arg]

HTTPException(status_code, detail) ==
    [type |-> "HTTPException", status_code |-> Some(status_code), detail |-> detail]

PyError(type, text) ==
    [type |-> type, status_code |-> None, detail |-> Detail(text, None)]

\* The messages, without their accents; {height-1} stands for the number
\* formatted into the message, kept as the arg of the detail
MsgNotImage == "El archivo debe ser una imagen"
MsgOnlyPngJpg == "Solo se permiten archivos PNG y JPG"
MsgPointRange == "El punto de division debe estar entre 0 y {height-1} pixeles"
MsgPctRange == "El porcentaje debe estar entre 0.0 y 1.0"
MsgDegenerate == "El punto de division no permite crear dos imagenes validas"
MsgPrefix == "Error procesando la imagen: "

\* str(e): "<status_code>: <detail>" for an HTTPException, the message otherwise
Str(e) == [status_code |-> e.status_code, text |-> e.detail.text, arg |-> e.detail.arg]

\* The JSON error response the framework builds from an HTTPException raised
\* by the handler: {"detail": e.detail} with status e.status_code.
ErrorResponse(e) ==
    [status_code |-> e.status_code[1],
     media_type |-> "application/json",
     detail |-> Some(e.detail),
     filename |-> None,
     body |-> None]

\* The framework's answer to an exception that is no HTTPException
UnhandledResponse(e) ==
    [status_code |-> 500,
     media_type |-> "text/plain",
     detail |-> Some(Detail("Internal Server Error", None)),
     filename |-> None,
     body |-> None]

\* Outcome of a block of code: it raised exc, or it completed with value
Raise(e) == [exc |-> Some(e), value |-> None]
Return(v) == [exc |-> None, value |-> Some(v)]

\* The characters of a filename that latin-1 cannot encode
NotLatin1 == {"日"}

\* f"attachment; filename={zip_filename}"
ContentDisposition(zip_filename) ==
    <<"a", "t", "t", "a", "c", "h", "m", "e", "n", "t", ";", " ",
      "f", "i", "l", "e", "n", "a", "m", "e", "=">> \o zip_filename

MsgLatin1Char ==
    "'latin-1' codec can't encode character {char} in position {start}: ordinal not in range(256)"
MsgLatin1Chars ==
    "'latin-1' codec can't encode characters in position {start}-{end}: ordinal not in range(256)"

\* value.encode("latin-1") of a header value: it fails on the first run of
\* characters it cannot encode, naming the 0-based positions of the run and,
\* when the run is one character, the character (printed as its escape)
EncodeLatin1(value) ==
    LET bad == {i \in 1..Len(value) : value[i] \in NotLatin1}
    IN  IF bad = {} THEN Return(value)
        ELSE
        LET first == CHOOSE i \in bad : \A j \in bad : i <= j
            last == CHOOSE i \in first..Len(value) :
                        /\ \A j \in first..i : j \in bad
                        /\ (i + 1) \notin bad
        IN  IF last = first
            THEN Raise([type |-> "UnicodeEncodeError", status_code |-> None,
                        detail |-> Detail(MsgLatin1Char, Some(<<value[first], first - 1>>))])
            ELSE Raise([type |-> "UnicodeEncodeError", status_code |-> None,
                        detail |-> Detail(MsgLatin1Chars, Some(<<first - 1, last - 1>>))])

\* StreamingResponse(..., media_type="application/zip", headers=...): the
\* constructor encodes the header values as latin-1
StreamingResponse(zip_bytes, zip_filename) ==
    LET header == EncodeLatin1(ContentDisposition(zip_filename))
    IN  IF header.exc # None THEN header
        ELSE Return([status_code |-> 200,
                     media_type |-> "application/zip",
                     detail |-> None,
                     filename |-> Some(zip_filename),
                     body |-> Some(zip_bytes)])
Raised(o) == o.exc # None

\* int(x) of a double below 2^31 in magnitude: truncation toward zero;
\* NaN and the infinities raise
IntOfFloat(x) ==
    CASE x.kind = "nan" ->
            Raise(PyError("ValueError", "cannot convert float NaN to integer"))
      [] x.kind = "inf" ->
            Raise(PyError("OverflowError", "cannot convert float infinity to integer"))
      [] OTHER ->
            LET s == -x.exp
                mag == IF IsZero(x) \/ s >= 53 THEN 0
                       ELSE IF s >= 27 THEN x.hi \div (2 ^ (s - 27))
                       ELSE x.hi * 2 ^ (27 - s) + x.lo \div (2 ^ s)
            IN  Return(IF x.neg THEN -mag ELSE mag)

----------------------------------------------------------------------------
(* Content type check, lines 28-33 *)

ImagePrefix == <<"image", "/">>
TypePng == <<"image", "/", "png">>
TypeJpeg == <<"image", "/", "jpeg">>
TypeJpg == <<"image", "/", "jpg">>
AcceptedTypes == {TypePng, TypeJpeg, TypeJpg}

\* None.startswith raises AttributeError outside the try block
CheckContentType(content_type) ==
    IF content_type = None
    THEN Raise(PyError("AttributeError", "'NoneType' object has no attribute 'startswith'"))
    ELSE IF ~StartsWith(content_type[1], ImagePrefix)
    THEN Raise(HTTPException(400, Detail(MsgNotImage, None)))
    ELSE IF content_type[1] \notin AcceptedTypes
    THEN Raise(HTTPException(400, Detail(MsgOnlyPngJpg, None)))
    ELSE Return(content_type[1])

----------------------------------------------------------------------------
(* Image decoding, cropping and encoding (PIL) *)

\* Upload bodies: valid is whether Image.open identifies the header, whole
\* whether the pixel data that follows it is all there (a JPEG file cut
\* short in its scan data opens and then fails to load)
Corrupt == [valid |-> FALSE, whole |-> FALSE, width |-> 0, height |-> 0, mode |-> ""]
Encoded(width, height, mode) ==
    [valid |-> TRUE, whole |-> TRUE, width |-> width, height |-> height, mode |-> mode]
Truncated(width, height, mode) ==
    [valid |-> TRUE, whole |-> FALSE, width |-> width, height |-> height, mode |-> mode]

\* Where the BytesIO objects of line 38 may be allocated
Addresses == {"0x7f0000000010", "0x7f0000000020", "0x7f0000000030"}

MsgUnidentified == "cannot identify image file <_io.BytesIO object at {address}>"
MsgTruncated == "image file is truncated"

\* Image.open(io.BytesIO(image_data)), the BytesIO being allocated at address:
\* only the header is read; the failure message is
\* "cannot identify image file %r" % fp, which prints the address
ImageOpen(data, address) ==
    IF ~data.valid
    THEN Raise([PyError("UnidentifiedImageError", MsgUnidentified)
                    EXCEPT !.detail.arg = Some(address)])
    ELSE Return([width |-> data.width, height |-> data.height, mode |-> data.mode,
                 whole |-> data.whole,
                 rows |-> [i \in 1..data.height |-> i - 1]])

\* image.crop((left, upper, right, lower)): it loads the pixel data first,
\* which fails on a file cut short
Crop(image, box) ==
    IF ~image.whole
    THEN Raise(PyError("OSError", MsgTruncated))
    ELSE Return([width |-> box[3] - box[1],
                 height |-> box[4] - box[2],
                 mode |-> image.mode,
                 rows |-> [i \in 1..(box[4] - box[2]) |-> image.rows[box[2] + i]]])

\* image.save(buffer, format=format_name): JPEG cannot hold an alpha channel
Save(image, format_name) ==
    IF format_name = "JPEG" /\ image.mode = "RGBA"
    THEN Raise(PyError("OSError", "cannot write mode RGBA as JPEG"))
    ELSE Return([format |-> format_name, image |-> image])

----------------------------------------------------------------------------
(* Split resolution, lines 43-67 *)

\* Variant: split_percentage takes precedence over split_point
ResolveSplitPercentageFirst(height, split_point, split_percentage) ==
    IF split_percentage # None
    THEN IF FloatLtZero(split_percentage[1]) \/ FloatGtOne(split_percentage[1])
         THEN Raise(HTTPException(400, Detail(MsgPctRange, None)))
         ELSE IntOfFloat(FloatMulInt(height, split_percentage[1]))
    ELSE IF split_point # None
    THEN IF split_point[1] < 0 \/ split_point[1] >= height
         THEN Raise(HTTPException(400, Detail(MsgPointRange, Some(height - 1))))
         ELSE Return(split_point[1])
    ELSE Return(height \div 2)

ResolveSplit(height, split_point, split_percentage) ==
    IF split_point # None
    THEN IF split_point[1] < 0 \/ split_point[1] >= height
         THEN Raise(HTTPException(400, Detail(MsgPointRange, Some(height - 1))))
         ELSE Return(split_point[1])
    ELSE IF split_percentage # None
    THEN IF FloatLtZero(split_percentage[1]) \/ FloatGtOne(split_percentage[1])
         THEN Raise(HTTPException(400, Detail(MsgPctRange, None)))
         ELSE IntOfFloat(FloatMulInt(height, split_percentage[1]))
    ELSE Return(height \div 2)

\* Variant: rows 0 and height pass the check
CheckDivisionInclusive(division_y, height) ==
    IF division_y < 0 \/ division_y > height
    THEN Raise(HTTPException(400, Detail(MsgDegenerate, None)))
    ELSE Return(division_y)

CheckDivision(division_y, height) ==
    IF division_y <= 0 \/ division_y >= height
    THEN Raise(HTTPException(400, Detail(MsgDegenerate, None)))
    ELSE Return(division_y)

----------------------------------------------------------------------------
(* Archive, lines 76-92 *)

\* Variant: the format is named after the declared subtype
FormatNameBySubtype(content_type) ==
    IF content_type = TypePng THEN "PNG"
    ELSE IF content_type = TypeJpg THEN "JPG"
    ELSE "JPEG"

FormatName(content_type) == IF content_type = TypePng THEN "PNG" ELSE "JPEG"

\* Variant: the entries are named after the time they are written
WriteStrStamped(zip_file, name, data, time) ==
    Append(zip_file, [name |-> name \o "@" \o ToString(time), data |-> data,
                      date_time |-> time])

\* zip_file.writestr(name, data): the entry records the time it is written
WriteStr(zip_file, name, data, time) ==
    Append(zip_file, [name |-> name, data |-> data, date_time |-> time])

EntryName(stem, format_name) == stem \o "." \o Lower(format_name)

\* Each writestr reads the clock: header_time at line 85, body_time at line 90
BuildZip(image_header, image_body, content_type, header_time, body_time) ==
    LET format_name == FormatName(content_type)
        header == Save(image_header, format_name)
    IN  IF Raised(header) THEN header
        ELSE LET zip1 == WriteStr(<<>>, EntryName("image_header", format_name),
                                  header.value[1], header_time)
                 body == Save(image_body, format_name)
             IN  IF Raised(body) THEN body
                 ELSE Return(WriteStr(zip1, EntryName("image_body", format_name),
                                      body.value[1], body_time))

----------------------------------------------------------------------------
(* Attachment name, lines 94-96 *)

\* Index of the last occurrence of c in p, 0 when there is none
RECURSIVE RFind(_, _, _)
RFind(p, c, i) ==
    IF i = 0 THEN 0
    ELSE IF p[i] = c THEN i
    ELSE RFind(p, c, i - 1)

\* The first index in from..(to - 1) holding a character other than ".", 0 if none
RECURSIVE FirstNonDot(_, _, _)
FirstNonDot(p, from, to) ==
    IF from >= to THEN 0
    ELSE IF p[from] # "." THEN from
    ELSE FirstNonDot(p, from + 1, to)

\* Index of the first occurrence of c in p from i on, 0 when there is none
RECURSIVE Find(_, _, _)
Find(p, c, i) ==
    IF i > Len(p) THEN 0
    ELSE IF p[i] = c THEN i
    ELSE Find(p, c, i + 1)

\* Variant: the name is cut at its first dot
SplitextRootFirstDot(p) ==
    LET dotIndex == Find(p, ".", 1)
    IN  IF dotIndex # 0 THEN SubSeq(p, 1, dotIndex - 1) ELSE p

\* os.path.splitext(p)[0] (posixpath): the extension starts at the last dot
\* of the last path component; leading dots of the component are not one.
SplitextRoot(p) ==
    LET sepIndex == RFind(p, "/", Len(p))
        dotIndex == RFind(p, ".", Len(p))
    IN  IF dotIndex > sepIndex /\ FirstNonDot(p, sepIndex + 1, dotIndex) # 0
        THEN SubSeq(p, 1, dotIndex - 1)
        ELSE p

DefaultName == <<"i", "m", "a", "g", "e">>
ZipSuffix == <<"_", "c", "r", "o", "p", "p", "e", "d", ".", "z", "i", "p">>

\* `if file.filename` is false for None and for ""
ZipFilename(filename) ==
    LET original_name ==
            IF filename # None /\ filename[1] # <<>>
            THEN SplitextRoot(filename[1])
            ELSE DefaultName
    IN  original_name \o ZipSuffix

----------------------------------------------------------------------------
(* The try block, lines 38-102, run after file.read() returned data *)

NoFrame == [division_y |-> None, image_header |-> None, image_body |-> None]

\* The outcome of the block together with the locals it has bound
TryBody(req, data, address, header_time, body_time) ==
    LET opened == ImageOpen(data, address)
    IN  IF Raised(opened) THEN [out |-> opened, frame |-> NoFrame]
        ELSE
        LET image == opened.value[1]
            width == image.width
            height == image.height
            resolved == ResolveSplit(height, req.split_point, req.split_percentage)
        IN  IF Raised(resolved) THEN [out |-> resolved, frame |-> NoFrame]
            ELSE
            LET checked == CheckDivision(resolved.value[1], height)
                division_y == resolved.value[1]
                bound == [NoFrame EXCEPT !.division_y = Some(division_y)]
            IN  IF Raised(checked) THEN [out |-> checked, frame |-> bound]
                ELSE
                LET header == Crop(image, <<0, 0, width, division_y>>)
                    body == Crop(image, <<0, division_y, width, height>>)
                IN  IF Raised(header) THEN [out |-> header, frame |-> bound]
                    ELSE IF Raised(body)
                    THEN [out |-> body,
                          frame |-> [bound EXCEPT !.image_header = header.value]]
                    ELSE
                    LET image_header == header.value[1]
                        image_body == body.value[1]
                        zipped == BuildZip(image_header, image_body,
                                           req.content_type[1], header_time, body_time)
                        locals == [division_y |-> Some(division_y),
                                   image_header |-> Some(image_header),
                                   image_body |-> Some(image_body)]
                    IN  IF Raised(zipped) THEN [out |-> zipped, frame |-> locals]
                        ELSE [out |-> StreamingResponse(zipped.value[1],
                                                        ZipFilename(req.filename)),
                              frame |-> locals]

\* Variant: a failure is swallowed and an empty archive returned
ExceptHandlerSwallow(out) ==
    IF Raised(out)
    THEN StreamingResponse(<<>>, DefaultName \o ZipSuffix)
    ELSE out

\* except Exception as e, lines 104-105: every exception of the block,
\* HTTPException included, is turned into a 500
ExceptHandler(out) ==
    IF Raised(out)
    THEN Raise(HTTPException(500, [prefix |-> MsgPrefix, cause |-> Str(out.exc[1])]))
    ELSE out

\* What the caller receives for the outcome of the handler
Respond(out) ==
    IF ~Raised(out) THEN out.value[1]
    ELSE IF out.exc[1].type = "HTTPException" THEN ErrorResponse(out.exc[1])
    ELSE UnhandledResponse(out.exc[1])

----------------------------------------------------------------------------
(* Inputs *)

TypeStrings ==
    {<<>>, <<"text", "/", "plain">>, <<"image", "/", "gif">>,
     <<"image", "/", "PNG">>, TypePng, TypeJpeg, TypeJpg}
DeclaredTypes == {None} \cup {Some(t) : t \in TypeStrings}

Widths == {1, 2}
Modes == {"RGB", "RGBA"}
Uploads ==
    {Corrupt} \cup {Encoded(w, h, m) : w \in Widths, h \in 1..MaxHeight, m \in Modes}
              \cup {Truncated(w, h, "RGB") : w \in Widths, h \in 1..MaxHeight}

SplitPoints == {None} \cup {Some(n) : n \in -1..(MaxHeight + 1)}
\* Doubles that are no small binary fraction: the doubles nearest 1/3, 2/3,
\* 0.6 and 0.7, the neighbours of 1.0, and the values that are no number
Third == Finite(FALSE, 44739242, 89478485, -54)
TwoThirds == Finite(FALSE, 44739242, 89478485, -53)
SixTenths == Finite(FALSE, 40265318, 53687091, -53)
SevenTenths == Finite(FALSE, 46976204, 107374182, -53)
BelowOne == Finite(FALSE, 67108863, 134217727, -53)
AboveOne == Finite(FALSE, 33554432, 1, -52)
OtherDoubles ==
    {Third, TwoThirds, SixTenths, SevenTenths, BelowOne, AboveOne,
     Zero(TRUE), NaN, Inf(FALSE), Inf(TRUE)}

SplitPercentages ==
    {None} \cup {Some(Dyadic(n, PctBits)) : n \in -1..(PctDen + 1)}
           \cup {Some(x) : x \in OtherDoubles}

NameChars == {"p", "J", ".", "/"} \cup NotLatin1
NameStrings == UNION {[1..n -> NameChars] : n \in 0..MaxNameLen}
Filenames == {None} \cup {Some(s) : s \in NameStrings}

PhotoJPG == <<"p", ".", "J">>
SunJPG == <<"日", ".", "J">>

Form(content_type, filename, upload, split_point, split_percentage) ==
    [content_type |-> content_type, filename |-> filename, upload |-> upload,
     split_point |-> split_point, split_percentage |-> split_percentage]

NoRequest == Form(None, None, Corrupt, None, None)

\* Every declared type, upload and split parameter, under one filename
SplitForms ==
    {Form(t, Some(PhotoJPG), u, sp, pct) :
        t \in DeclaredTypes, u \in Uploads, sp \in SplitPoints, pct \in SplitPercentages}

\* Every filename, on uploads that split by default
NameForms ==
    {Form(Some(t), f, Encoded(1, 2, "RGB"), None, None) :
        t \in {TypePng, TypeJpg}, f \in Filenames}

Forms == SplitForms \cup NameForms

\* A few forms for requests served concurrently
ConcurrentForms ==
    {Form(Some(t), Some(PhotoJPG), u, Some(1), None) :
        t \in {TypePng, TypeJpeg, <<"text", "/", "plain">>},
        u \in {Corrupt, Encoded(2, 3, "RGBA"), Truncated(1, 2, "RGB")}}
    \cup {Form(Some(TypePng), Some(PhotoJPG), u, Some(2), None) :
            u \in {Encoded(2, 3, "RGBA"), Truncated(1, 2, "RGB")}}
    \cup {Form(Some(TypePng), Some(SunJPG), Encoded(2, 3, "RGBA"), Some(1), None)}

----------------------------------------------------------------------------
(* Actions *)

\* Lines 28-37: the content type check, then the handler suspends in
\* await file.read()
Start(r) ==
    /\ pc[r] = "start"
    /\ LET checked == CheckContentType(request[r].content_type)
       IN  IF Raised(checked)
           THEN /\ response' = [response EXCEPT ![r] = Some(Respond(checked))]
                /\ pc' = [pc EXCEPT ![r] = "done"]
           ELSE /\ pc' = [pc EXCEPT ![r] = "reading"]
                /\ UNCHANGED response
    /\ UNCHANGED <<request, image_data, frame, now>>

\* Variant: the bytes are those of whichever request is reading
ReadUploadShared(r) ==
    request[CHOOSE q \in Requests : pc[q] = "reading"].upload

\* The bytes file.read() returns to request r
ReadUpload(r) == request[r].upload

\* Lines 37-105: file.read() returns and the handler runs to its response.
\* The clock may advance while it runs: the header entry is written at the
\* time now, the body entry at a time later >= now. The BytesIO of line 38
\* is allocated at some address.
Resume(r) ==
    /\ pc[r] = "reading"
    /\ \E later \in now..MaxTime, address \in Addresses :
        LET data == ReadUpload(r)
            ran == TryBody(request[r], data, address, now, later)
        IN  /\ image_data' = [image_data EXCEPT ![r] = Some(data)]
            /\ frame' = [frame EXCEPT ![r] = ran.frame]
            /\ response' = [response EXCEPT ![r] = Some(Respond(ExceptHandler(ran.out)))]
            /\ now' = later
    /\ pc' = [pc EXCEPT ![r] = "done"]
    /\ UNCHANGED request

\* Time passes
Tick ==
    /\ now < MaxTime
    /\ now' = now + 1
    /\ UNCHANGED <<request, pc, image_data, frame, response>>

Next ==
    \/ \E r \in Requests : Start(r)
    \/ \E r \in Requests : Resume(r)
    \/ Tick

InitCommon ==
    /\ image_data = [r \in Requests |-> None]
    /\ frame = [r \in Requests |-> NoFrame]
    /\ response = [r \in Requests |-> None]
    /\ now = 0

\* One request, over the whole input space
Init ==
    /\ InitCommon
    /\ \E form \in Forms :
        /\ request = [r \in Requests |-> IF r = "r1" THEN form ELSE NoRequest]
        /\ pc = [r \in Requests |-> IF r = "r1" THEN "start" ELSE "absent"]

Spec == Init /\ [][Next]_vars

\* Concurrent requests
InitConcurrent ==
    /\ InitCommon
    /\ request \in [Requests -> ConcurrentForms]
    /\ pc = [r \in Requests |-> "start"]

SpecConcurrent == InitConcurrent /\ [][Next]_vars

----------------------------------------------------------------------------
(* Vocabulary of the properties *)

Done(r) == pc[r] = "done"
Resp(r) == response[r][1]
Accepted(req) == req.content_type \in {Some(t) : t \in AcceptedTypes}
\* The handler decoded the upload of this request
Decodes(req) == Accepted(req) /\ req.upload.valid
\* ... and loaded its pixel data when it came to crop it
Loads(req) == Decodes(req) /\ req.upload.whole
\* The attachment name has a character that latin-1 cannot encode
NameNotLatin1(req) ==
    \E i \in 1..Len(ZipFilename(req.filename)) : ZipFilename(req.filename)[i] \in NotLatin1

\* The 500 built by the except clause, and the failure it reports
Wrapped(resp) == resp.status_code = 500 /\ resp.media_type = "application/json"
Cause(resp) == resp.detail[1].cause

\* 0.0 <= x <= 1.0
InUnit(x) == x.kind = "finite" /\ ~FloatLtZero(x) /\ ~FloatGtOne(x)

\* The product h * x held exactly, as the limbs of h times the mantissa of x
ExactProduct(h, x) ==
    [hi |-> h * x.hi + ((h * x.lo) \div Limb), lo |-> (h * x.lo) % Limb]

\* floor(h * x) of the real product, for x in the unit interval
ExactFloor(h, x) ==
    IF IsZero(x) \/ -x.exp - 27 >= 30 THEN 0
    ELSE ExactProduct(h, x).hi \div (2 ^ (-x.exp - 27))

\* The real product h * x is a double: no bit of it is lost to rounding
ProductIsExact(h, x) ==
    \/ IsZero(x)
    \/ LET p == ExactProduct(h, x)
       IN  p.lo % (2 ^ (BitLen(p.hi) - 26)) = 0

\* The split resolver of the specification, section 4.2
RefRow(height, split_point, split_percentage) ==
    IF split_point # None THEN split_point[1]
    ELSE IF split_percentage # None THEN ExactFloor(height, split_percentage[1])
    ELSE CHOOSE k \in 0..height : 2 * k <= height /\ height < 2 * (k + 1)

RefOutOfRange(height, split_point, split_percentage) ==
    IF split_point # None THEN split_point[1] \notin 0..(height - 1)
    ELSE split_percentage # None /\ ~InUnit(split_percentage[1])

RefDegenerate(height, split_point, split_percentage) ==
    /\ ~RefOutOfRange(height, split_point, split_percentage)
    /\ RefRow(height, split_point, split_percentage) \notin 1..(height - 1)

RefInvalidSplit(req) ==
    \/ RefOutOfRange(req.upload.height, req.split_point, req.split_percentage)
    \/ RefDegenerate(req.upload.height, req.split_point, req.split_percentage)

\* Rows lo..(hi - 1) of the source image
RowsOf(lo, hi) == [i \in 1..(hi - lo) |-> lo + i - 1]

----------------------------------------------------------------------------
(* C1: every request whose split parameters violate a validation rule is   *)
(* answered with status 400 and the message of the violated rule as its    *)
(* detail, never with a 500.                                               *)
C1_ValidationErrorIs400 ==
    \A r \in Requests :
        (Done(r) /\ Decodes(request[r]) /\ RefInvalidSplit(request[r]))
            => /\ Resp(r).status_code = 400
               /\ Resp(r).detail # None
               /\ Resp(r).detail[1] \in
                    {Detail(MsgPointRange, Some(request[r].upload.height - 1)),
                     Detail(MsgPctRange, None), Detail(MsgDegenerate, None)}

(* C2: a request is accepted only with a declared type of image/png,       *)
(* image/jpeg or image/jpg; every other declared value, None included, is  *)
(* answered with status 400 and the upload is never read.                  *)
C2_OtherTypesAre400 ==
    \A r \in Requests :
        (Done(r) /\ ~Accepted(request[r]))
            => /\ Resp(r).status_code = 400
               /\ image_data[r] = None

(* C3: in every 200 response the header and body heights add up to the     *)
(* height of the upload, each is at least 1, both slices have the width of *)
(* the upload; and the crop step is reached only with 0 < division_y <     *)
(* height.                                                                 *)
C3_SlicesPartitionImage ==
    \A r \in Requests :
        /\ (Done(r) /\ Resp(r).status_code = 200)
            => /\ frame[r].image_header # None
               /\ frame[r].image_body # None
               /\ frame[r].image_header[1].height + frame[r].image_body[1].height
                    = request[r].upload.height
               /\ frame[r].image_header[1].height >= 1
               /\ frame[r].image_body[1].height >= 1
               /\ frame[r].image_header[1].width = request[r].upload.width
               /\ frame[r].image_body[1].width = request[r].upload.width
               /\ Len(frame[r].image_header[1].rows) >= 1
               /\ Len(frame[r].image_body[1].rows) >= 1
        /\ (frame[r].image_header # None \/ frame[r].image_body # None)
            => /\ frame[r].division_y # None
               /\ frame[r].division_y[1] \in 1..(request[r].upload.height - 1)

C3_Witness ==
    \E r \in Requests :
        /\ Done(r)
        /\ Resp(r).status_code = 200
        /\ request[r].split_point = None
        /\ request[r].split_percentage # None
        /\ request[r].upload.height = MaxHeight

\* The parts of C4 that do not involve the percentage product
C4Common(r) ==
    LET req == request[r]
        h == req.upload.height
    IN  /\ frame[r].division_y # None
            <=> (Decodes(req) /\ ~RefOutOfRange(h, req.split_point, req.split_percentage))
        /\ (frame[r].division_y # None
                /\ (req.split_point # None \/ req.split_percentage = None))
            => frame[r].division_y[1] = RefRow(h, req.split_point, req.split_percentage)
        /\ (Loads(req) /\ req.split_point # None /\ req.split_point[1] \in 1..(h - 1))
            => /\ frame[r].image_header # None
               /\ frame[r].image_body # None
               /\ frame[r].image_header[1].height = req.split_point[1]
               /\ frame[r].image_body[1].height = h - req.split_point[1]
               /\ Len(frame[r].image_header[1].rows) = req.split_point[1]
               /\ Len(frame[r].image_body[1].rows) = h - req.split_point[1]

(* C4 as stated: the resolved row is the one of the reference resolver:    *)
(* split_point when supplied, whatever split_percentage is; else the floor *)
(* of the product height * split_percentage; else floor(height / 2). A row *)
(* is resolved exactly when the parameter in force is in range. For        *)
(* split_point in 1..height-1 the header has split_point rows and the body *)
(* height - split_point rows.                                              *)
C4_ResolvedRowIsReference ==
    \A r \in Requests :
        LET req == request[r]
            h == req.upload.height
        IN  Done(r) =>
            /\ C4Common(r)
            /\ frame[r].division_y # None
                => frame[r].division_y[1] = RefRow(h, req.split_point, req.split_percentage)

(* C4 amended: as stated, but with split_percentage in force the row is    *)
(* the floor of the product rounded to the nearest double: it is the floor *)
(* of the real product or one more, and the floor of the real product      *)
(* whenever that product is itself a double.                               *)
C4_ResolvedRowIsRoundedFloor ==
    \A r \in Requests :
        LET req == request[r]
            h == req.upload.height
            exact == RefRow(h, req.split_point, req.split_percentage)
        IN  Done(r) =>
            /\ C4Common(r)
            /\ frame[r].division_y # None
                => /\ frame[r].division_y[1] \in {exact, exact + 1}
                   /\ (req.split_point = None /\ req.split_percentage # None
                            /\ ProductIsExact(h, req.split_percentage[1]))
                        => frame[r].division_y[1] = exact

C4_Witness ==
    \E r \in Requests :
        /\ Done(r)
        /\ Resp(r).status_code = 200
        /\ request[r].split_point = None
        /\ request[r].split_percentage = Some(Third)
        /\ request[r].upload.height = 3
        /\ frame[r].division_y = Some(1)
        /\ ExactFloor(3, Third) = 0

(* C5: the rules apply in order, so the rule a request fails on is:        *)
(* split_point = 0 the degenerate split; split_point = height the point    *)
(* range, citing 0..height-1; split_point < 0 the point range;             *)
(* split_percentage 0.0 or 1.0 the degenerate split; split_percentage      *)
(* outside 0.0..1.0 the percentage range.                                  *)
C5_RuleOrder ==
    \A r \in Requests :
        LET req == request[r]
            h == req.upload.height
            sp == req.split_point
            pct == req.split_percentage
            Fails(text, arg) ==
                /\ Wrapped(Resp(r))
                /\ Cause(Resp(r)).status_code = Some(400)
                /\ Cause(Resp(r)).text = text
                /\ Cause(Resp(r)).arg = arg
        IN  (Done(r) /\ Decodes(req)) =>
            /\ sp = Some(0) => Fails(MsgDegenerate, None)
            /\ sp = Some(h) => Fails(MsgPointRange, Some(h - 1))
            /\ (sp # None /\ sp[1] < 0) => Fails(MsgPointRange, Some(h - 1))
            /\ (sp = None /\ pct \in {Some(Zero(FALSE)), Some(Zero(TRUE)), Some(Dyadic(1, 0))})
                => Fails(MsgDegenerate, None)
            /\ (sp = None /\ pct # None /\ ~InUnit(pct[1]))
                => Fails(MsgPctRange, None)

(* C6: with an accepted declared type, a failure to identify the upload,   *)
(* to load its pixel data, to encode a slice or to build the response      *)
(* headers is answered with status 500 and the detail "Error procesando la *)
(* imagen: " followed by the description of the failure; every request     *)
(* ends in one of 200 with the whole archive, 400 or 500, an error         *)
(* carrying no archive.                                                    *)
C6_FailureIs500 ==
    \A r \in Requests :
        LET req == request[r]
            Reports(text) ==
                /\ Wrapped(Resp(r))
                /\ Resp(r).detail[1].prefix = MsgPrefix
                /\ Cause(Resp(r)).status_code = None
                /\ Cause(Resp(r)).text = text
        IN  Done(r) =>
            /\ (Accepted(req) /\ ~req.upload.valid)
                => /\ Reports(MsgUnidentified)
                   /\ Cause(Resp(r)).arg \in {Some(a) : a \in Addresses}
            /\ (Decodes(req) /\ ~req.upload.whole /\ ~RefInvalidSplit(req))
                => Reports(MsgTruncated)
            /\ (Loads(req) /\ ~RefInvalidSplit(req) /\ req.upload.mode = "RGBA"
                    /\ req.content_type # Some(TypePng))
                => Reports("cannot write mode RGBA as JPEG")
            /\ (Loads(req) /\ ~RefInvalidSplit(req)
                    /\ ~(req.upload.mode = "RGBA" /\ req.content_type # Some(TypePng))
                    /\ NameNotLatin1(req))
                => /\ (Reports(MsgLatin1Char) \/ Reports(MsgLatin1Chars))
                   /\ Cause(Resp(r)).arg # None
            /\ Resp(r).status_code \in {200, 400, 500}
            /\ Resp(r).status_code = 200
                => (Resp(r).detail = None /\ Resp(r).body # None /\ Len(Resp(r).body[1]) = 2)
            /\ Resp(r).status_code # 200
                => (Resp(r).detail # None /\ Resp(r).body = None)

C6_Witness ==
    \E r \in Requests :
        /\ Done(r)
        /\ Accepted(request[r])
        /\ ~request[r].upload.valid
        /\ Resp(r).status_code = 500
        /\ Resp(r).detail[1].prefix = MsgPrefix

\* A whole image under a name whose stem latin-1 cannot encode: the
\* response headers cannot be built
C6_HeaderWitness ==
    \E r \in Requests :
        /\ Done(r)
        /\ Loads(request[r])
        /\ request[r].filename = Some(SunJPG)
        /\ Resp(r).status_code = 500
        /\ Cause(Resp(r)).text = MsgLatin1Char
        /\ Cause(Resp(r)).arg = Some(<<"日", Len(ContentDisposition(<<>>))>>)

(* C7: the archive of a 200 response has exactly two entries,              *)
(* image_header.<ext> then image_body.<ext>, <ext> being png for image/png *)
(* and jpeg for image/jpeg and image/jpg; both are encoded in the same     *)
(* format; the header holds rows 0..row-1 and the body rows row..height-1. *)
C7_ArchiveEntries ==
    \A r \in Requests :
        (Done(r) /\ Resp(r).status_code = 200) =>
            LET zip == Resp(r).body[1]
                png == request[r].content_type = Some(TypePng)
                row == frame[r].division_y[1]
            IN  /\ Len(zip) = 2
                /\ zip[1].name = (IF png THEN "image_header.png" ELSE "image_header.jpeg")
                /\ zip[2].name = (IF png THEN "image_body.png" ELSE "image_body.jpeg")
                /\ zip[1].data.format = (IF png THEN "PNG" ELSE "JPEG")
                /\ zip[2].data.format = zip[1].data.format
                /\ zip[1].data.image.rows = RowsOf(0, row)
                /\ zip[2].data.image.rows = RowsOf(row, request[r].upload.height)

C7_Witness ==
    \E r \in Requests :
        /\ Done(r)
        /\ Resp(r).status_code = 200
        /\ request[r].content_type = Some(TypeJpg)
        /\ request[r].upload.height = MaxHeight
        /\ Resp(r).body[1][2].data.image.rows = RowsOf(1, MaxHeight)

\* ext is empty or one extension: a dot followed by neither dot nor slash
IsExtension(ext) ==
    \/ ext = <<>>
    \/ /\ ext[1] = "."
       /\ \A i \in 2..Len(ext) : ext[i] \notin {".", "/"}

\* The last path component of p has a dot after a character other than a dot
HasExtension(p) ==
    \E i, j \in 1..Len(p) :
        /\ i < j
        /\ p[i] \notin {".", "/"}
        /\ p[j] = "."
        /\ \A k \in i..Len(p) : p[k] # "/"

(* C8: a 200 response has media type application/zip and the attachment    *)
(* name <stem>_cropped.zip, <stem> being the filename without its          *)
(* extension, whatever the extension is (photo.JPG gives                   *)
(* photo_cropped.zip), and image when the filename is absent or empty.     *)
C8_AttachmentName ==
    \A r \in Requests :
        (Done(r) /\ Resp(r).status_code = 200) =>
            LET f == request[r].filename
                name == Resp(r).filename[1]
            IN  /\ Resp(r).media_type = "application/zip"
                /\ f \in {None, Some(<<>>)} => name = DefaultName \o ZipSuffix
                /\ f = Some(PhotoJPG) => name = <<"p">> \o ZipSuffix
                /\ f \notin {None, Some(<<>>)} =>
                    \E n \in 0..Len(f[1]) :
                        /\ name = SubSeq(f[1], 1, n) \o ZipSuffix
                        /\ IsExtension(SubSeq(f[1], n + 1, Len(f[1])))
                        /\ HasExtension(f[1]) => n < Len(f[1])

C8_Witness ==
    \E r \in Requests :
        /\ Done(r)
        /\ Resp(r).status_code = 200
        /\ request[r].filename = Some(<<"p", ".", "J">>)
        /\ Resp(r).filename = Some(<<"p">> \o ZipSuffix)

\* The archive without the time at which its entries were written
Contents(zip) == [i \in 1..Len(zip) |-> [name |-> zip[i].name, data |-> zip[i].data]]

(* C9 as stated: two requests with the same upload, declared type,         *)
(* filename and split parameters get the same response, archive bytes      *)
(* included, whenever they are served.                                     *)
C9_ByteIdentical ==
    \A r1, r2 \in Requests :
        (Done(r1) /\ Done(r2) /\ request[r1] = request[r2])
            => response[r1] = response[r2]

\* The detail of a response without the object address that the message
\* of an upload Image.open cannot identify prints
SansAddress(detail) ==
    IF detail # None /\ "cause" \in DOMAIN detail[1]
            /\ detail[1].cause.text = MsgUnidentified
    THEN Some([detail[1] EXCEPT !.cause.arg = None])
    ELSE detail

(* C9 amended: two requests with the same inputs get the same status,      *)
(* media type and attachment name, archives with the same entries, names   *)
(* and encoded data, and the same error detail but for the object address  *)
(* in the message of an upload that cannot be identified; the archives     *)
(* differ at most in the times recorded for the entries.                   *)
C9_SameContents ==
    \A r1, r2 \in Requests :
        (Done(r1) /\ Done(r2) /\ request[r1] = request[r2])
            => /\ Resp(r1).status_code = Resp(r2).status_code
               /\ Resp(r1).media_type = Resp(r2).media_type
               /\ SansAddress(Resp(r1).detail) = SansAddress(Resp(r2).detail)
               /\ Resp(r1).detail # Resp(r2).detail
                    => /\ ~request[r1].upload.valid
                       /\ Cause(Resp(r1)).text = MsgUnidentified
               /\ Resp(r1).filename = Resp(r2).filename
               /\ (Resp(r1).body = None) = (Resp(r2).body = None)
               /\ Resp(r1).body # None
                    => Contents(Resp(r1).body[1]) = Contents(Resp(r2).body[1])

\* Two servings of one undecodable upload whose details differ
C9_AddressWitness ==
    \E r1, r2 \in Requests :
        /\ Done(r1) /\ Done(r2)
        /\ request[r1] = request[r2]
        /\ ~request[r1].upload.valid
        /\ Resp(r1).detail # Resp(r2).detail

\* Three servings of undecodable uploads, each with its own address
C9_ThreeAddresses ==
    /\ \A r \in Requests : Done(r) /\ Accepted(request[r]) /\ ~request[r].upload.valid
    /\ \A r, q \in Requests : r # q => Cause(Resp(r)).arg # Cause(Resp(q)).arg

C9_Witness ==
    \E r1, r2 \in Requests :
        /\ r1 # r2
        /\ Done(r1) /\ Done(r2)
        /\ request[r1] = request[r2]
        /\ Resp(r1).status_code = 200
        /\ Resp(r1).body[1][1].date_time # Resp(r2).body[1][1].date_time
        /\ Contents(Resp(r1).body[1]) = Contents(Resp(r2).body[1])

\* The status the specification gives a request, from its own form alone
RefStatus(req) ==
    IF req.content_type = None THEN 500
    ELSE IF ~Accepted(req) THEN 400
    ELSE IF ~req.upload.valid THEN 500
    ELSE IF RefInvalidSplit(req) THEN 500
    ELSE IF ~req.upload.whole THEN 500
    ELSE IF req.upload.mode = "RGBA" /\ req.content_type # Some(TypePng) THEN 500
    ELSE IF NameNotLatin1(req) THEN 500
    ELSE 200

(* C10: under every interleaving, the status, the resolved row and the     *)
(* archive entries of a request are determined by its own form: the bytes  *)
(* read, the rows cropped and the entries written are those of its own     *)
(* upload, whatever the other requests are and wherever they stand.        *)
C10_Independent ==
    \A r \in Requests :
        LET req == request[r]
            h == req.upload.height
        IN  /\ image_data[r] # None => image_data[r] = Some(req.upload)
            /\ Done(r) =>
                /\ Resp(r).status_code = RefStatus(req)
                /\ frame[r].division_y # None
                    => frame[r].division_y[1] = RefRow(h, req.split_point, req.split_percentage)
                /\ Resp(r).status_code = 200 =>
                    LET zip == Resp(r).body[1]
                        row == RefRow(h, req.split_point, req.split_percentage)
                    IN  /\ Len(zip) = 2
                        /\ zip[1].data.image =
                            [width |-> req.upload.width, height |-> row,
                             mode |-> req.upload.mode, rows |-> RowsOf(0, row)]
                        /\ zip[2].data.image =
                            [width |-> req.upload.width, height |-> h - row,
                             mode |-> req.upload.mode, rows |-> RowsOf(row, h)]

C10_Witness ==
    \E r1, r2 \in Requests :
        /\ r1 # r2
        /\ pc[r1] = "reading"
        /\ Done(r2)
        /\ Resp(r2).status_code = 200
        /\ request[r1].upload # request[r2].upload
        /\ request[r1].split_point # request[r2].split_point

====
